---- MODULE Spec2Model ----
(***************************************************************************)
(* Model of server.js: the ArcFace enrollment (/register) and verification *)
(* (/find) handlers, the augmentation sampler, the profile builder and the *)
(* vector utilities they use.                                              *)
(*                                                                         *)
(* Numbers.  The program computes in IEEE doubles.  The model computes in  *)
(* fixed point with Scale units per 1.0: a product is rescaled by Scale, a *)
(* square root is the integer square root, a quotient is the integer       *)
(* quotient.  Embeddings have two components.                              *)
(*                                                                         *)
(* Scheduling.  Node runs one handler at a time and switches only at an    *)
(* await.  Every action below is the code between two such points; the     *)
(* awaits inside one getAugmentedEmbeddings call touch no shared state     *)
(* other than the model handle, so one call is one step.                   *)
(***************************************************************************)
EXTENDS Integers, Sequences, FiniteSets, TLC

\* ------------------------------------------------------------------ bounds
\* requests the server receives in one run in which clients use any names;
\* a run in which they all use one name has one more
MaxRequests == 2
\* largest image width/height the sampler is probed with (SpecCrop)
MaxDim == 12

\* --------------------------------------------------------------- constants
\* 1.0 in fixed point
Scale == 100
\* Infinity (lines 164, 231, 232); larger than any distance or similarity
Infinity == 1000000
\* defaults of the three thresholds (lines 13-15), 0.95 and 0.62 in fixed point
DefaultDistanceThreshold == 95
DefaultCosineThreshold == 62
DefaultRequiredVariantMatches == 1

VARIABLES
    env,            \* process.env: the three threshold variables, <<>> = unset
    rejections,     \* what the build does with a handler's rejected promise
    arcfaceSession, \* TRUE once loadModels has assigned the session
    store,          \* the data directory: path -> <<>> (no file) or <<profile>>
    reqs,           \* the requests, by order of arrival
    running,        \* FALSE once the process has exited
    probe           \* the sampler's last probe (SpecCrop)

vars == <<env, rejections, arcfaceSession, store, reqs, running, probe>>

\* ------------------------------------------------------------ vector math
RECURSIVE SqrtBetween(_, _, _)
\* the r with r * r <= n < (r + 1) * (r + 1), by bisection of low..high
SqrtBetween(n, low, high) ==
    IF high - low <= 1 THEN low
    ELSE LET mid == (low + high) \div 2
         IN  IF mid * mid <= n THEN SqrtBetween(n, mid, high)
             ELSE SqrtBetween(n, low, mid)

\* Math.sqrt on a fixed-point square: the integer square root
Sqrt(n) == SqrtBetween(n, 0, n + 1)

RECURSIVE SumOver(_, _, _)
\* sum of f[i] for i in from..to (the for loops and reduce of lines 77, 85, 93)
SumOver(f, from, to) == IF from > to THEN 0 ELSE f[from] + SumOver(f, from + 1, to)

normalizeEmbedding(embedding) ==
    LET norm == Sqrt(SumOver([i \in DOMAIN embedding |-> embedding[i] * embedding[i]],
                             1, Len(embedding)))
    IN  IF norm = 0 THEN embedding
        ELSE [i \in DOMAIN embedding |-> (embedding[i] * Scale) \div norm]

euclideanDistance(a, b) ==
    Sqrt(SumOver([i \in DOMAIN a |-> (a[i] - b[i]) * (a[i] - b[i])], 1, Len(a)))

cosineSimilarity(a, b) ==
    SumOver([i \in DOMAIN a |-> a[i] * b[i]], 1, Len(a)) \div Scale

RECURSIVE SumEmbeddings(_, _, _)
SumEmbeddings(embeddings, k, sum) ==
    IF k > Len(embeddings) THEN sum
    ELSE SumEmbeddings(embeddings, k + 1,
                       [i \in DOMAIN sum |-> sum[i] + embeddings[k][i]])

averageEmbeddings(embeddings) ==
    LET length == Len(embeddings[1])
        sum == SumEmbeddings(embeddings, 1, [i \in 1..length |-> 0])
    IN  [i \in 1..length |-> sum[i] \div Len(embeddings)]

\* ------------------------------------------------------------ configuration
\* Number(process.env.X || fallback): an unset (or empty) variable is falsy and
\* gives the fallback; the string "0" is truthy and gives 0
\* faulty variant: Number(process.env.X) || fallback, which also replaces a configured 0
EnvNumberFalsyZero(value, fallback) ==
    IF value = <<>> \/ value[1] = 0 THEN fallback ELSE value[1]

EnvNumber(value, fallback) == IF value = <<>> THEN fallback ELSE value[1]

DISTANCE_THRESHOLD == EnvNumber(env.DISTANCE_THRESHOLD, DefaultDistanceThreshold)
COSINE_THRESHOLD == EnvNumber(env.COSINE_THRESHOLD, DefaultCosineThreshold)
REQUIRED_VARIANT_MATCHES ==
    EnvNumber(env.REQUIRED_VARIANT_MATCHES, DefaultRequiredVariantMatches)

\* ------------------------------------------------------------------ inputs
\* An uploaded image: its dimensions as sharp reports them (0 = not reported),
\* whether sharp can decode it, and what the ArcFace session returns for each
\* of its regions (full image, 0.92 crop, 0.85 crop).  The session is opaque:
\* all the code relies on is that it maps a buffer to a vector.
ImageA == [id |-> "A", width |-> 100, height |-> 80, readable |-> TRUE,
           raw |-> << <<200, 0>>, <<160, 120>>, <<80, 60>> >>]
ImageB == [id |-> "B", width |-> 9, height |-> 7, readable |-> TRUE,
           raw |-> << <<0, 50>>, <<-100, 0>>, <<0, 0>> >>]
ImageU == [id |-> "U", width |-> 0, height |-> 0, readable |-> TRUE,
           raw |-> << <<60, 80>>, <<60, 80>>, <<60, 80>> >>]
ImageE == [id |-> "E", width |-> 0, height |-> 0, readable |-> FALSE,
           raw |-> << <<0, 0>>, <<0, 0>>, <<0, 0>> >>]

\* req.files of a /register request
EnrollFiles == { <<>>, <<ImageA>>, <<ImageB>>, <<ImageU, ImageA>>, <<ImageA, ImageE>> }
\* req.file of a /find request, <<>> when no file was uploaded
VerifyFiles == { <<>>, <<ImageA>>, <<ImageB>>, <<ImageU>> }

\* req.body.name as its '/'-separated segments; <<>> is a missing or empty name
Names == { <<>>, <<"bob">>, <<".", "bob">>, <<"alice">> }

\* ---------------------------------------------------------- profile store
RECURSIVE Normalize(_, _)
\* path.normalize on the directory segments: "." is dropped, ".." pops
Normalize(segments, out) ==
    IF segments = <<>> THEN out
    ELSE IF Head(segments) = "." THEN Normalize(Tail(segments), out)
    ELSE IF Head(segments) = ".." /\ out # <<>> /\ out[Len(out)] # ".."
         THEN Normalize(Tail(segments), SubSeq(out, 1, Len(out) - 1))
    ELSE Normalize(Tail(segments), Append(out, Head(segments)))

\* path.join("data", `${name}.json`): the directories normalized, then the file
\* (the last segment of the name, which carries the .json suffix)
profilePath(name) ==
    IF name = <<>> THEN <<"data", "">>
    ELSE Append(Normalize(<<"data">> \o SubSeq(name, 1, Len(name) - 1), <<>>),
                name[Len(name)])

Paths == { profilePath(n) : n \in Names }

existsSync(path) == store[path] # <<>>

\* faulty variant: the new embeddings are appended to the profile already in the file
writeFileSyncMerged(path, profile) ==
    [store EXCEPT ![path] =
        IF store[path] = <<>> THEN <<profile>>
        ELSE <<[profile EXCEPT !.embeddings = store[path][1].embeddings \o @]>>]

\* fs.writeFileSync(path, JSON.stringify(profile)): the file is replaced whole
writeFileSync(path, profile) == [store EXCEPT ![path] = <<profile>>]

\* JSON.stringify writes a non-finite number as null, which reads back as null
\* and counts as 0 in arithmetic; every other number round-trips
JsonNumber(x) == IF x = Infinity \/ x = -Infinity THEN 0 ELSE x

\* JSON.parse(JSON.stringify(profile))
JsonRoundTrip(profile) ==
    [embeddings |-> [k \in DOMAIN profile.embeddings |->
                        [i \in DOMAIN profile.embeddings[k] |->
                            JsonNumber(profile.embeddings[k][i])]],
     centroid |-> [i \in DOMAIN profile.centroid |-> JsonNumber(profile.centroid[i])],
     maxIntraDistance |-> JsonNumber(profile.maxIntraDistance),
     minIntraSimilarity |-> JsonNumber(profile.minIntraSimilarity)]

\* ----------------------------------------------------- augmentation sampler
Min(a, b) == IF a < b THEN a ELSE b

\* the ratios 0.92 and 0.85 in fixed point
ratios == <<92, 85>>

\* faulty variant: the square is taken from the longer side
CenterCropOfLongerSide(width, height, ratio) ==
    LET square == IF width > height THEN width ELSE height
        side == (square * ratio) \div Scale
    IN  [left |-> (width - side) \div 2, top |-> (height - side) \div 2,
         width |-> side, height |-> side]

\* the centered square crop of lines 133-135
CenterCrop(width, height, ratio) ==
    LET square == Min(width, height)
        side == (square * ratio) \div Scale
    IN  [left |-> (width - side) \div 2, top |-> (height - side) \div 2,
         width |-> side, height |-> side]

\* sharp's extract accepts a region with positive sides that lies in the image
ExtractOk(region, width, height) ==
    /\ region.left >= 0 /\ region.top >= 0
    /\ region.width >= 1 /\ region.height >= 1
    /\ region.left + region.width <= width
    /\ region.top + region.height <= height

\* the crops the sampler asks for: none when a dimension is not reported
Crops(width, height) ==
    IF width # 0 /\ height # 0
    THEN [k \in DOMAIN ratios |-> CenterCrop(width, height, ratios[k])]
    ELSE <<>>

\* faulty variant: the crops are dropped, only the full image is embedded
getAugmentedEmbeddingsFullOnly(image, session) ==
    IF ~image.readable \/ ~session
    THEN [ok |-> FALSE, embeddings |-> <<>>, extracted |-> 0]
    ELSE [ok |-> TRUE, embeddings |-> <<normalizeEmbedding(image.raw[1])>>,
          extracted |-> 1]

\* getAugmentedEmbeddings(imagePath), reading the session handle as it is now.
\* ok = FALSE is a thrown error: metadata() on an undecodable file, extract()
\* on a bad region, or arcfaceSession.inputNames on an undefined session.
\* extracted counts the session runs made.
getAugmentedEmbeddings(image, session) ==
    LET crops == Crops(image.width, image.height)
        buffers == 1 + Len(crops)
        thrown == [ok |-> FALSE, embeddings |-> <<>>, extracted |-> 0]
    IN  IF ~image.readable THEN thrown
        ELSE IF \E k \in DOMAIN crops : ~ExtractOk(crops[k], image.width, image.height)
             THEN thrown
        ELSE IF ~session THEN thrown
        ELSE [ok |-> TRUE,
              embeddings |-> [k \in 1..buffers |-> normalizeEmbedding(image.raw[k])],
              extracted |-> buffers]

\* --------------------------------------------------------- profile builder
RECURSIVE IntraFrom(_, _, _, _)
\* the loop of lines 166-172
IntraFrom(embeddings, centroid, k, acc) ==
    IF k > Len(embeddings) THEN acc
    ELSE LET distance == euclideanDistance(embeddings[k], centroid)
             similarity == cosineSimilarity(embeddings[k], centroid)
         IN  IntraFrom(embeddings, centroid, k + 1,
                 [maxIntraDistance |->
                      IF distance > acc.maxIntraDistance THEN distance
                      ELSE acc.maxIntraDistance,
                  minIntraSimilarity |->
                      IF similarity < acc.minIntraSimilarity THEN similarity
                      ELSE acc.minIntraSimilarity])

buildPersonProfile(embeddings) ==
    LET centroid == normalizeEmbedding(averageEmbeddings(embeddings))
        stats == IntraFrom(embeddings, centroid, 1,
                           [maxIntraDistance |-> 0, minIntraSimilarity |-> Infinity])
    IN  [embeddings |-> embeddings,
         centroid |-> centroid,
         maxIntraDistance |-> stats.maxIntraDistance,
         minIntraSimilarity |-> stats.minIntraSimilarity]

\* ------------------------------------------------------------- match sweep
\* faulty variant: a pair counts when it passes either threshold
PairPassesEither(distance, similarity) ==
    distance <= DISTANCE_THRESHOLD \/ similarity >= COSINE_THRESHOLD

\* the per-pair test of lines 244-247
PairPasses(distance, similarity) ==
    distance <= DISTANCE_THRESHOLD /\ similarity >= COSINE_THRESHOLD

RECURSIVE SweepFrom(_, _, _, _)
\* the nested loops of lines 235-251, pair k of Len(query) * Len(saved) in the
\* order the loops visit them
SweepFrom(queryEmbeddings, savedEmbeddings, k, acc) ==
    IF k > Len(queryEmbeddings) * Len(savedEmbeddings) THEN acc
    ELSE LET query == queryEmbeddings[((k - 1) \div Len(savedEmbeddings)) + 1]
             saved == savedEmbeddings[((k - 1) % Len(savedEmbeddings)) + 1]
             distance == euclideanDistance(saved, query)
             similarity == cosineSimilarity(saved, query)
         IN  SweepFrom(queryEmbeddings, savedEmbeddings, k + 1,
                 [minDistance |->
                      IF distance < acc.minDistance THEN distance ELSE acc.minDistance,
                  maxSimilarity |->
                      IF similarity > acc.maxSimilarity THEN similarity
                      ELSE acc.maxSimilarity,
                  variantMatches |->
                      IF PairPasses(distance, similarity) THEN acc.variantMatches + 1
                      ELSE acc.variantMatches])

\* faulty variant: the decision gates on the centroid figures
isMatchByCentroid(minDistance, maxSimilarity, variantMatches, centroidDistance, centroidSimilarity) ==
    /\ centroidDistance <= DISTANCE_THRESHOLD
    /\ centroidSimilarity >= COSINE_THRESHOLD
    /\ variantMatches >= REQUIRED_VARIANT_MATCHES

\* lines 263-266; the centroid figures are passed to show they are not read
isMatch(minDistance, maxSimilarity, variantMatches, centroidDistance, centroidSimilarity) ==
    /\ minDistance <= DISTANCE_THRESHOLD
    /\ maxSimilarity >= COSINE_THRESHOLD
    /\ variantMatches >= REQUIRED_VARIANT_MATCHES

\* --------------------------------------------------------------- responses
NoResponse == [status |-> 0, body |-> [message |-> ""]]

\* res.status(400).json({ message })
BadRequest(message) == [status |-> 400, body |-> [message |-> message]]

\* lines 206-211
RegisteredResponse(embeddings, profile) ==
    [status |-> 200,
     body |-> [message |-> "Person Registered",
               samplesStored |-> Len(embeddings),
               maxIntraDistance |-> profile.maxIntraDistance,
               minIntraSimilarity |-> profile.minIntraSimilarity]]

\* faulty variant: a missing profile is reported as a non-match
NotRegisteredAsNotFound ==
    [status |-> 200, body |-> [message |-> "Person Not Found", variantMatches |-> 0]]

\* line 225
NotRegisteredResponse == [status |-> 200, body |-> [message |-> "Person not registered"]]

\* lines 231-279: the sweep, the centroid figures, the decision and the body
MatchResponse(queryEmbeddings, profile) ==
    LET sweep == SweepFrom(queryEmbeddings, profile.embeddings, 1,
                           [minDistance |-> Infinity, maxSimilarity |-> -Infinity,
                            variantMatches |-> 0])
        centroidDistance == euclideanDistance(profile.centroid, queryEmbeddings[1])
        centroidSimilarity == cosineSimilarity(profile.centroid, queryEmbeddings[1])
    IN  [status |-> 200,
         body |-> [message |->
                       IF isMatch(sweep.minDistance, sweep.maxSimilarity,
                                  sweep.variantMatches, centroidDistance,
                                  centroidSimilarity)
                       THEN "Person Found" ELSE "Person Not Found",
                   minDistance |-> sweep.minDistance,
                   maxSimilarity |-> sweep.maxSimilarity,
                   centroidDistance |-> centroidDistance,
                   centroidSimilarity |-> centroidSimilarity,
                   variantMatches |-> sweep.variantMatches,
                   thresholds |-> [distance |-> DISTANCE_THRESHOLD,
                                   cosine |-> COSINE_THRESHOLD]]]

\* the framework's default error handler, when a rejection reaches it
ServerError == [status |-> 500, body |-> [message |-> "Internal Server Error"]]

\* ---------------------------------------------------------------- requests
Requests == 1..(MaxRequests + 1)

\* a request that has not arrived
NoRequest ==
    [kind |-> "none", name |-> <<>>, files |-> <<>>, pc |-> "idle", idx |-> 0,
     embeddings |-> <<>>, profile |-> <<>>, extracted |-> 0, thrown |-> FALSE,
     response |-> NoResponse]

\* requests are numbered in the order they arrive
NextToArrive(r) ==
    /\ reqs[r].pc = "idle"
    /\ IF r = 1 THEN TRUE ELSE reqs[r - 1].pc # "idle"

\* faulty variant: the name is not checked
RegisterValidationFilesOnly(name, files) ==
    IF Len(files) = 0 THEN [status |-> 400, body |-> [message |-> "At least one image required"]]
    ELSE [status |-> 0, body |-> [message |-> ""]]

\* lines 187-190: the validation that precedes the first await of /register
RegisterValidation(name, files) ==
    IF name = <<>> THEN BadRequest("Name is required")
    ELSE IF Len(files) = 0 THEN BadRequest("At least one image required")
    ELSE NoResponse

\* lines 219-221
FindValidation(name, files) ==
    IF name = <<>> THEN BadRequest("Name required")
    ELSE IF Len(files) = 0 THEN BadRequest("Image required")
    ELSE NoResponse

\* The handlers are async functions without try/catch (lines 185, 217), so a
\* throw inside one rejects the promise the framework was handed, and what
\* follows is the build's: a framework that forwards rejected handler promises
\* answers through its default error handler; one that does not look at the
\* promise leaves the rejection unhandled, the request gets no response, and
\* the runtime, for which an unhandled rejection is fatal, exits with every
\* other request in flight unanswered.  Either runs before any other handler
\* is resumed.  (A runtime that only warns leaves the thrower unanswered too.)
Rejected(r, extracted) ==
    [x \in Requests |->
        IF x = r
        THEN [reqs[x] EXCEPT !.thrown = TRUE,
                             !.extracted = @ + extracted,
                             !.pc = IF rejections = "forwarded" THEN "done" ELSE "unhandled",
                             !.response = IF rejections = "forwarded" THEN ServerError
                                          ELSE NoResponse]
        ELSE IF rejections = "fatal" /\ reqs[x].pc \in {"augment", "extract"}
        THEN [reqs[x] EXCEPT !.pc = "lost"]
        ELSE reqs[x]]

\* POST /register arrives: lines 185-194, up to the first await
Register(r, name, files) ==
    /\ running
    /\ NextToArrive(r)
    /\ LET invalid == RegisterValidation(name, files)
       IN  reqs' = [reqs EXCEPT ![r] =
                [NoRequest EXCEPT !.kind = "register", !.name = name, !.files = files,
                                  !.pc = IF invalid = NoResponse THEN "augment" ELSE "done",
                                  !.idx = IF invalid = NoResponse THEN 1 ELSE 0,
                                  !.response = invalid]]
    /\ UNCHANGED <<env, rejections, arcfaceSession, store, running, probe>>

\* lines 195-211: one getAugmentedEmbeddings call resolves or rejects; after
\* the last file the profile is built, written and reported in the same turn
RegisterAugment(r) ==
    /\ running
    /\ reqs[r].kind = "register" /\ reqs[r].pc = "augment"
    /\ LET q == reqs[r]
           variants == getAugmentedEmbeddings(q.files[q.idx], arcfaceSession)
           embeddings == q.embeddings \o variants.embeddings
           profile == buildPersonProfile(embeddings)
       IN  IF ~variants.ok
           THEN /\ reqs' = Rejected(r, variants.extracted)
                /\ running' = (rejections = "forwarded")
                /\ store' = store
           ELSE IF q.idx < Len(q.files)
           THEN /\ reqs' = [reqs EXCEPT ![r].idx = @ + 1,
                                        ![r].embeddings = embeddings,
                                        ![r].extracted = @ + variants.extracted]
                /\ UNCHANGED <<running, store>>
           ELSE /\ store' = writeFileSync(profilePath(q.name), profile)
                /\ reqs' = [reqs EXCEPT ![r].pc = "done",
                                        ![r].embeddings = embeddings,
                                        ![r].extracted = @ + variants.extracted,
                                        ![r].response =
                                            RegisteredResponse(embeddings, profile)]
                /\ running' = running
    /\ UNCHANGED <<env, rejections, arcfaceSession, probe>>

\* POST /find arrives: lines 217-229, up to the await of the query embeddings
Find(r, name, files) ==
    /\ running
    /\ NextToArrive(r)
    /\ LET invalid == FindValidation(name, files)
           profilePathOfName == profilePath(name)
           arrived == [NoRequest EXCEPT !.kind = "find", !.name = name, !.files = files]
       IN  reqs' = [reqs EXCEPT ![r] =
                IF invalid # NoResponse
                THEN [arrived EXCEPT !.pc = "done", !.response = invalid]
                ELSE IF ~existsSync(profilePathOfName)
                THEN [arrived EXCEPT !.pc = "done", !.response = NotRegisteredResponse]
                ELSE [arrived EXCEPT !.pc = "extract", !.idx = 1,
                         !.profile = <<JsonRoundTrip(store[profilePathOfName][1])>>]]
    /\ UNCHANGED <<env, rejections, arcfaceSession, store, running, probe>>

\* lines 229-279: the query embeddings resolve or reject, then the decision
FindDecide(r) ==
    /\ running
    /\ reqs[r].kind = "find" /\ reqs[r].pc = "extract"
    /\ LET q == reqs[r]
           queryEmbeddings == getAugmentedEmbeddings(q.files[1], arcfaceSession)
       IN  IF ~queryEmbeddings.ok
           THEN /\ reqs' = Rejected(r, queryEmbeddings.extracted)
                /\ running' = (rejections = "forwarded")
           ELSE /\ reqs' = [reqs EXCEPT ![r] =
                        [q EXCEPT !.pc = "done",
                                  !.embeddings = queryEmbeddings.embeddings,
                                  !.extracted = @ + queryEmbeddings.extracted,
                                  !.response = MatchResponse(queryEmbeddings.embeddings,
                                                             q.profile[1])]]
                /\ running' = running
    /\ UNCHANGED <<env, rejections, arcfaceSession, store, probe>>

\* lines 22-30: the session is assigned some time after start-up
loadModels ==
    /\ running
    /\ ~arcfaceSession
    /\ arcfaceSession' = TRUE
    /\ UNCHANGED <<env, rejections, store, reqs, running, probe>>

\* ------------------------------------------------------------ sampler probe
\* an image of the given dimensions
ProbeImage(width, height) ==
    [id |-> "P", width |-> width, height |-> height, readable |-> TRUE,
     raw |-> ImageA.raw]

\* getAugmentedEmbeddings applied to an image of the given dimensions
Sample(width, height, session) ==
    /\ probe' = [width |-> width, height |-> height, session |-> session,
                 crops |-> Crops(width, height),
                 result |-> getAugmentedEmbeddings(ProbeImage(width, height), session)]
    /\ UNCHANGED <<env, rejections, arcfaceSession, store, reqs, running>>

\* ------------------------------------------------------------ specification
Unset == [DISTANCE_THRESHOLD |-> <<>>, COSINE_THRESHOLD |-> <<>>,
          REQUIRED_VARIANT_MATCHES |-> <<>>]

\* the threshold variables the server is started with in SpecEnv
EnvConfigs ==
    [DISTANCE_THRESHOLD : {<<>>, <<0>>},
     COSINE_THRESHOLD : {<<>>, <<-100>>},
     REQUIRED_VARIANT_MATCHES : {<<>>, <<0>>, <<2>>}]

NoProbe == [width |-> 0, height |-> 0, session |-> FALSE, crops |-> <<>>,
            result |-> [ok |-> FALSE, embeddings |-> <<>>, extracted |-> 0]]

Start ==
    /\ arcfaceSession = FALSE
    /\ store = [p \in Paths |-> <<>>]
    /\ reqs = [r \in Requests |-> NoRequest]
    /\ running = TRUE
    /\ probe = NoProbe

\* the server started with no threshold variable set, on either kind of build
Init == env = Unset /\ rejections \in {"forwarded", "fatal"} /\ Start

\* the server's steps when requests arrive in the given slots for the given names
Serve(slots, names) ==
    \/ \E r \in slots, name \in names, files \in EnrollFiles : Register(r, name, files)
    \/ \E r \in Requests : RegisterAugment(r)
    \/ \E r \in slots, name \in names, files \in VerifyFiles : Find(r, name, files)
    \/ \E r \in Requests : FindDecide(r)
    \/ loadModels

Next == Serve(1..MaxRequests, Names)

Spec == Init /\ [][Next]_vars

\* the name of the runs in which every request is for the same name
OneName == <<"bob">>

NextOneName == Serve(Requests, {OneName})

SpecOneName == Init /\ [][NextOneName]_vars

\* the server started under each threshold configuration, every request for
\* the same name; the build forwards rejections, which no answered /find
\* depends on
InitEnv == env \in EnvConfigs /\ rejections = "forwarded" /\ Start

NextEnv == Serve(1..MaxRequests, {OneName})

SpecEnv == InitEnv /\ [][NextEnv]_vars

\* the sampler alone, on every image of dimensions up to MaxDim
NextCrop == \E width \in 0..MaxDim, height \in 0..MaxDim, session \in BOOLEAN :
                Sample(width, height, session)

InitCrop == env = Unset /\ rejections = "forwarded" /\ Start

SpecCrop == InitCrop /\ [][NextCrop]_vars

\* ------------------------------------------------------------------ claims
\* an answered /find that compared a query with a stored profile
Compared(r) ==
    /\ reqs[r].kind = "find" /\ reqs[r].pc = "done"
    /\ reqs[r].profile # <<>> /\ ~reqs[r].thrown

Found(r) == reqs[r].response.body.message = "Person Found"

\* the (query variant, stored variant) pairs of a compared request
Pairs(r) == (DOMAIN reqs[r].embeddings) \X (DOMAIN reqs[r].profile[1].embeddings)
PairDistance(r, p) ==
    euclideanDistance(reqs[r].profile[1].embeddings[p[2]], reqs[r].embeddings[p[1]])
PairSimilarity(r, p) ==
    cosineSimilarity(reqs[r].profile[1].embeddings[p[2]], reqs[r].embeddings[p[1]])

\* the embeddings the extractor and the normalization give for an image whose
\* dimensions are known
NormalizedVariants(image) == [k \in 1..3 |-> normalizeEmbedding(image.raw[k])]
DimensionsKnown(image) == image.width >= 1 /\ image.height >= 1
ZeroVector(v) == \A i \in DOMAIN v : v[i] = 0
NonZeroVariants(image) ==
    Cardinality({k \in 1..3 : ~ZeroVector(NormalizedVariants(image)[k])})

\* C1: a compared /find reports a match exactly when some pair is within
\* DISTANCE_THRESHOLD (the minimum is), some pair reaches COSINE_THRESHOLD (the
\* maximum does) and at least REQUIRED_VARIANT_MATCHES pairs satisfy both on
\* the same pair; nothing else, the centroid figures included, enters.
C1_MatchIffPairConditions ==
    \A r \in Requests : Compared(r) =>
        /\ reqs[r].response.status = 200
        /\ reqs[r].response.body.message \in {"Person Found", "Person Not Found"}
        /\ Found(r) <=>
            /\ \E p \in Pairs(r) :
                   /\ \A o \in Pairs(r) : PairDistance(r, p) <= PairDistance(r, o)
                   /\ PairDistance(r, p) <= DISTANCE_THRESHOLD
            /\ \E p \in Pairs(r) :
                   /\ \A o \in Pairs(r) : PairSimilarity(r, p) >= PairSimilarity(r, o)
                   /\ PairSimilarity(r, p) >= COSINE_THRESHOLD
            /\ Cardinality({p \in Pairs(r) :
                               /\ PairDistance(r, p) <= DISTANCE_THRESHOLD
                               /\ PairSimilarity(r, p) >= COSINE_THRESHOLD})
                   >= REQUIRED_VARIANT_MATCHES

\* a match was reported although the centroid comparison alone is beyond the
\* distance threshold
C1_Witness ==
    \E r \in Requests :
        /\ Compared(r) /\ Found(r)
        /\ reqs[r].response.body.centroidDistance > DISTANCE_THRESHOLD

\* C2: a /find with a name and an image whose profile file does not exist is
\* answered at once with status 200 and the body { message: "Person not
\* registered" } and nothing else; no session run is made and the store is
\* left as it was.
C2_NotRegistered ==
    [][\A r \in Requests :
          ( /\ reqs[r].pc = "idle" /\ reqs'[r].kind = "find"
            /\ reqs'[r].name # <<>> /\ reqs'[r].files # <<>>
            /\ ~existsSync(profilePath(reqs'[r].name)) )
          => /\ reqs'[r].pc = "done"
             /\ reqs'[r].response.status = 200
             /\ reqs'[r].response.body = [message |-> "Person not registered"]
             /\ reqs'[r].extracted = 0 /\ reqs'[r].embeddings = <<>>
             /\ store' = store]_vars

\* a /find for a name without a profile has been answered, while another name
\* has a profile
C2_Witness ==
    \E r \in Requests :
        /\ reqs[r].kind = "find" /\ reqs[r].pc = "done"
        /\ reqs[r].name # <<>> /\ reqs[r].files # <<>>
        /\ reqs[r].profile = <<>>
        /\ reqs[r].response.body.message = "Person not registered"
        /\ \E p \in Paths : store[p] # <<>>

\* C3: a /register with a missing or empty name, or with no image, is
\* answered with status 400; no session run is made and the store is left as
\* it was.
C3_EnrollValidation ==
    [][\A r \in Requests :
          ( /\ reqs[r].pc = "idle" /\ reqs'[r].kind = "register"
            /\ (reqs'[r].name = <<>> \/ reqs'[r].files = <<>>) )
          => /\ reqs'[r].pc = "done"
             /\ reqs'[r].response.status = 400
             /\ reqs'[r].extracted = 0 /\ reqs'[r].embeddings = <<>>
             /\ store' = store]_vars

\* an invalid /register has been refused while a profile is stored
C3_Witness ==
    \E r \in Requests :
        /\ reqs[r].kind = "register" /\ reqs[r].pc = "done"
        /\ (reqs[r].name = <<>> \/ reqs[r].files = <<>>)
        /\ reqs[r].response.status = 400
        /\ \E p \in Paths : store[p] # <<>>

\* C4: a request whose extraction or decoding threw reports neither a stored
\* profile nor a match result, and has been answered with a failure that is
\* none of success, "not registered" and non-match.
C4_FailureIsAnswered ==
    \A r \in Requests : reqs[r].thrown =>
        /\ reqs[r].response.status \notin {0, 200}
        /\ reqs[r].response.body.message \notin
               {"", "Person Registered", "Person not registered", "Person Found",
                "Person Not Found"}
        /\ DOMAIN reqs[r].response.body = {"message"}

\* the part of C4 that holds on every build: the step in which a handler
\* throws writes nothing, and the thrower never reports a profile or a result
C4_AbortWritesNothing ==
    [][\A r \in Requests :
          (~reqs[r].thrown /\ reqs'[r].thrown)
          => /\ store' = store
             /\ reqs'[r].response \in {ServerError, NoResponse}
             /\ reqs'[r].pc \in {"done", "unhandled"}]_vars

\* the step in which the /register r succeeds leaves, as the profile of its
\* name, the profile built from exactly the embeddings of its own images,
\* reports their number as samplesStored, and leaves the profiles of the
\* names in others as they were
EnrollEffect(r, others) ==
    ( /\ reqs[r].pc = "augment" /\ reqs'[r].pc = "done"
      /\ reqs'[r].response.status = 200 )
    => LET call == reqs'[r]
           mine == [k \in 1..Len(call.files) |->
                       getAugmentedEmbeddings(call.files[k], TRUE).embeddings]
           total == SumOver([k \in 1..Len(call.files) |-> Len(mine[k])],
                            1, Len(call.files))
       IN  /\ store'[profilePath(call.name)] # <<>>
           /\ LET stored == store'[profilePath(call.name)][1]
              IN  /\ Len(stored.embeddings) = total
                  /\ \A k \in 1..Len(call.files) :
                         \A i \in 1..Len(mine[k]) :
                             \E j \in 1..total : stored.embeddings[j] = mine[k][i]
                  /\ stored = buildPersonProfile(stored.embeddings)
                  /\ call.response.body.samplesStored = Len(stored.embeddings)
           /\ \A n \in others : store'[profilePath(n)] = store[profilePath(n)]

\* C5: a successful /register for name n replaces the profile of n by the one
\* built from that call's embeddings alone, with samplesStored their number,
\* and leaves the stored profile of every other name unchanged.
C5_EnrollReplacesOnlyItsName ==
    [][\A r \in Requests : EnrollEffect(r, Names \ {reqs'[r].name})]_vars

\* what holds of the code: the same for every other name that is kept in
\* another file
C5_EnrollReplacesOnlyItsFile ==
    [][\A r \in Requests :
          EnrollEffect(r, {n \in Names :
                              profilePath(n) # profilePath(reqs'[r].name)})]_vars

C7_ZeroDistanceThreshold ==
    \A r \in Requests :
        ( /\ Compared(r) /\ env.DISTANCE_THRESHOLD = <<0>>
          /\ \A p \in Pairs(r) :
                 reqs[r].embeddings[p[1]] # reqs[r].profile[1].embeddings[p[2]] )
        => ~Found(r)

\* such a /find was answered although a pair reached the cosine threshold
C7_Witness ==
    \E r \in Requests :
        /\ Compared(r) /\ env.DISTANCE_THRESHOLD = <<0>>
        /\ \A p \in Pairs(r) :
               reqs[r].embeddings[p[1]] # reqs[r].profile[1].embeddings[p[2]]
        /\ reqs[r].response.body.maxSimilarity >= COSINE_THRESHOLD
        /\ ~Found(r)

\* C8: in a run whose requests are all for one name, a /find is answered
\* "not registered" or holds, from its arrival on and whatever is written
\* meanwhile, a profile that is in whole the profile one successful /register
\* call of the run built from its own embeddings.
C8_ProfileOfOneEnroll ==
    \A r \in Requests :
        (reqs[r].kind = "find" /\ reqs[r].name # <<>> /\ reqs[r].files # <<>>)
        => \/ /\ reqs[r].profile = <<>>
              /\ reqs[r].response = NotRegisteredResponse
           \/ /\ reqs[r].profile # <<>>
              /\ \E e \in Requests :
                     /\ reqs[e].kind = "register" /\ reqs[e].pc = "done"
                     /\ reqs[e].response.status = 200
                     /\ reqs[e].name = reqs[r].name
                     /\ reqs[r].profile[1] = buildPersonProfile(reqs[e].embeddings)

\* a /register for the name has replaced the profile while a /find that read
\* the earlier one was extracting its query, and the /find has been answered
C8_Witness ==
    \E r \in Requests :
        /\ Compared(r)
        /\ store[profilePath(reqs[r].name)] # reqs[r].profile
        /\ \E e \in Requests :
               /\ e > r /\ reqs[e].kind = "register" /\ reqs[e].pc = "done"
               /\ reqs[e].response.status = 200
               /\ reqs[e].name = reqs[r].name

\* C9: in every match result, a variant match implies that the minimum
\* distance and the maximum similarity pass their thresholds; with
\* REQUIRED_VARIANT_MATCHES >= 1 the outcome is variantMatches >=
\* REQUIRED_VARIANT_MATCHES; and variantMatches is between 0 and the number
\* of pairs.
C9_VariantMatchesDecide ==
    \A r \in Requests : Compared(r) =>
        LET body == reqs[r].response.body
        IN  /\ body.variantMatches >= 1 =>
                /\ body.minDistance <= DISTANCE_THRESHOLD
                /\ body.maxSimilarity >= COSINE_THRESHOLD
            /\ REQUIRED_VARIANT_MATCHES >= 1 =>
                (Found(r) <=> body.variantMatches >= REQUIRED_VARIANT_MATCHES)
            /\ body.variantMatches >= 0
            /\ body.variantMatches <=
                   Len(reqs[r].embeddings) * Len(reqs[r].profile[1].embeddings)

\* a result with some, but not all, pairs matching, short of the required number
C9_Witness ==
    \E r \in Requests :
        /\ Compared(r)
        /\ reqs[r].response.body.variantMatches >= 1
        /\ reqs[r].response.body.variantMatches < REQUIRED_VARIANT_MATCHES
        /\ ~Found(r)

\* the crops of the last probe lie in the image, with sides >= 1
CropsInside ==
    /\ Len(probe.crops) = 2
    /\ \A k \in 1..2 :
           /\ probe.crops[k].width >= 1 /\ probe.crops[k].height = probe.crops[k].width
           /\ 0 <= probe.crops[k].left
           /\ probe.crops[k].left + probe.crops[k].width <= probe.width
           /\ 0 <= probe.crops[k].top
           /\ probe.crops[k].top + probe.crops[k].height <= probe.height

\* the sampler returned the embeddings of the full image, the 0.92 crop and
\* the 0.85 crop, in this order
ThreeInOrder ==
    /\ probe.result.ok
    /\ probe.result.embeddings = NormalizedVariants(ProbeImage(probe.width, probe.height))

\* C10 as stated: with both dimensions known (>= 1) the two crops have side >=
\* 1 and lie in the image and the sampler returns 3 embeddings in order; with
\* a dimension unknown it returns 1.  (The session is loaded.)
C10_CropsOfKnownDimensions ==
    probe.session =>
        /\ (probe.width >= 1 /\ probe.height >= 1) => (CropsInside /\ ThreeInOrder)
        /\ (probe.width = 0 \/ probe.height = 0) =>
               (probe.result.ok /\ Len(probe.result.embeddings) = 1)

\* C10 amended: the same for dimensions >= 2.
C10_CropsOfDimensionsFromTwo ==
    probe.session =>
        /\ (probe.width >= 2 /\ probe.height >= 2) => (CropsInside /\ ThreeInOrder)
        /\ (probe.width = 0 \/ probe.height = 0) =>
               (probe.result.ok /\ Len(probe.result.embeddings) = 1)

\* an image with an odd margin on one axis was sampled into 3 embeddings
C10_Witness ==
    /\ probe.session /\ probe.width >= 2 /\ probe.height >= 2
    /\ probe.width # probe.height
    /\ (probe.width - probe.crops[1].width) % 2 = 1
    /\ CropsInside /\ ThreeInOrder

====
